---- MODULE Spec2Model ----
(***************************************************************************)
(* Article content resolution of miniflux-summary-agent:                   *)
(* strip_html, truncate_content, is_single_sentence_summary,               *)
(* fetch_article_content, ArticleInput.from_entry and the conversion loop  *)
(* of fetch_articles.                                                      *)
(*                                                                         *)
(* A Python str is a sequence of one-character strings; a character that   *)
(* is not ASCII is written as its code point ("U+2026" is one character).  *)
(* Python's None is the value None below.                                  *)
(***************************************************************************)
EXTENDS Integers, Sequences, FiniteSets, TLC

VARIABLES
    \* fetch_articles / ArticleInput.from_entry
    entries,             \* entries_data.entries
    max_content_length,  \* from_entry's parameter
    fetch_full_content,  \* from_entry's parameter
    pc,                  \* "loop" | "await_fetch" | "done" | "idle"
    idx,                 \* number of entries whose conversion has started
    plain_content,       \* from_entry's local
    should_fetch,        \* from_entry's local
    full_content,        \* from_entry's local (Unset until assigned)
    articles_for_ai,     \* fetch_articles' result list
    fetch_calls,         \* per entry, the calls of fetch_article_content
    attempts,            \* per entry, the calls of from_entry
    conversion_errors,   \* positions of the entries whose conversion raised
    fetch_response,      \* the server's answer to the latest article fetch
    resolving,           \* positions of the entries whose from_entry is running
    \* a call of truncate_content followed by a call on its result
    t_content, t_max, t_first, t_second,
    \* a call of is_single_sentence_summary
    c_content, c_result,
    \* a call of fetch_article_content
    f_response, f_element, f_outcome,
    \* a call of strip_html
    s_html, s_result,
    \* a call of process_article
    p_article, p_outcome, p_summary,
    \* run_summarization around fetch_articles
    r_pc,                \* "fetch_articles" | "process_articles" |
                         \* "await_model" | "returned" | "idle"
    r_result,            \* run_summarization's return value
    feed_raised,         \* whether get_entries or model_validate raised
    summaries,           \* process_articles' result list
    sum_idx,             \* number of articles whose summarization has started
    summarizing,         \* positions of the articles whose process_article runs
    model_outcome,       \* the model client's answer to the latest chat call
    process_calls,       \* calls of process_articles
    render_calls         \* calls of generate_html_output

vars == <<entries, max_content_length, fetch_full_content, pc, idx,
          plain_content, should_fetch, full_content, articles_for_ai,
          fetch_calls, attempts, conversion_errors, fetch_response, resolving,
          t_content, t_max, t_first, t_second, c_content, c_result,
          f_response, f_element, f_outcome, s_html, s_result,
          p_article, p_outcome, p_summary,
          r_pc, r_result, feed_raised, summaries, sum_idx, summarizing,
          model_outcome, process_calls, render_calls>>

pipeline_vars == <<entries, max_content_length, fetch_full_content, pc, idx,
                   plain_content, should_fetch, full_content,
                   articles_for_ai, fetch_calls, attempts, conversion_errors,
                   fetch_response, resolving>>
truncate_vars == <<t_content, t_max, t_first, t_second>>
classify_vars == <<c_content, c_result>>
fetch_vars == <<f_response, f_element, f_outcome>>
strip_vars == <<s_html, s_result>>
summarize_vars == <<p_article, p_outcome, p_summary>>
run_vars == <<r_pc, r_result, feed_raised, summaries, sum_idx, summarizing,
              model_outcome, process_calls, render_calls>>

---------------------------------------------------------------------------
(* Python values *)

None == <<"None">>
Unset == <<"unset">>

\* bool(x) of a str | None
Truthy(x) == x # None /\ x # <<>>

\* x or d
Or(x, d) == IF Truthy(x) THEN x ELSE d

\* s[:k], k of either sign
SlicePrefix(s, k) ==
    IF k >= 0
    THEN SubSeq(s, 1, IF k < Len(s) THEN k ELSE Len(s))
    ELSE SubSeq(s, 1, IF Len(s) + k > 0 THEN Len(s) + k ELSE 0)

IsSpace(c) == c \in {" ", "\n", "\t"}
\* the punctuation class without , : ;
IsPunct_sentence_ends(c) == c \in {".", "!", "?"}

IsPunct(c) == c \in {".", "!", "?", ",", ":", ";"}
IsSentenceEnd(c) == c \in {".", "!", "?"}

SetMin(S) == CHOOSE x \in S : \A y \in S : x <= y

Indices(s) == [i \in 1..Len(s) |-> i]

\* F applied to the value of x: Python evaluates an argument once, before
\* the call, and the callee works on that value
Call(F(_), x) == CHOOSE r \in {F(v) : v \in {x}} : TRUE

\* the characters Out(i) of the positions i of s that Kept keeps, in order
Filtered(s, Kept(_), Out(_)) ==
    LET Build(kept) == [r \in 1..Len(kept) |-> Out(kept[r])]
    IN  Call(Build, SelectSeq(Indices(s), Kept))

\* the first index >= i of s that holds no whitespace (Len(s) + 1 if none)
RECURSIVE SkipSpaces(_, _)
SkipSpaces(s, i) ==
    IF i <= Len(s) /\ IsSpace(s[i]) THEN SkipSpaces(s, i + 1) ELSE i

\* the last index <= i of s that holds no whitespace (0 if none)
RECURSIVE SkipSpacesBack(_, _)
SkipSpacesBack(s, i) ==
    IF i >= 1 /\ IsSpace(s[i]) THEN SkipSpacesBack(s, i - 1) ELSE i

\* s.lstrip() for s.strip()
LStrip(s) == SubSeq(s, SkipSpaces(s, 1), Len(s))

\* s.strip()
Strip(s) == SubSeq(s, SkipSpaces(s, 1), SkipSpacesBack(s, Len(s)))

\* s.lower()
LowerChar(c) ==
    CASE c = "A" -> "a" [] c = "B" -> "b" [] c = "E" -> "e"
      [] c = "O" -> "o" [] c = "S" -> "s" [] OTHER -> c
Lower(s) == [i \in 1..Len(s) |-> LowerChar(s[i])]

\* kw in s
Contains(s, kw) ==
    \E i \in 1..(Len(s) - Len(kw) + 1) :
        s[i] = kw[1] /\ SubSeq(s, i, i + Len(kw) - 1) = kw

---------------------------------------------------------------------------
(* strip_html *)

\* re.sub(r"<[^>]+>", " ", s).  A match starts at a "<" whose next character
\* is not ">" and runs to the first ">" after that character; the scan is
\* leftmost and non-overlapping, so a "<" lying inside a match that started
\* before it starts none.  Every match is replaced by one space.
SubTags(s) ==
    LET n == Len(s)
        gts == {j \in 1..n : s[j] = ">"}
        TagEnd(k) ==
            IF k + 1 <= n /\ s[k + 1] # ">" /\ (\E j \in gts : j >= k + 2)
            THEN SetMin({j \in gts : j >= k + 2})
            ELSE 0
        Replace(cand) ==
            LET Inside(i) == \E t \in cand : t[1] < i /\ i <= t[2]
                Kept(i) == ~Inside(i)
                Out(i) == IF \E t \in cand : t[1] = i THEN " " ELSE s[i]
            IN  Filtered(s, Kept, Out)
    IN  Call(Replace,
             {t \in {<<k, TagEnd(k)>> : k \in {k \in 1..n : s[k] = "<"}} :
                 t[2] # 0})

\* re.sub(r"\s+", " ", s): every run of whitespace becomes one space
CollapseWs(s) ==
    LET Kept(i) == ~(IsSpace(s[i]) /\ i > 1 /\ IsSpace(s[i - 1]))
        Out(i) == IF IsSpace(s[i]) THEN " " ELSE s[i]
    IN  Filtered(s, Kept, Out)

\* re.sub(r"\s+([.!?,:;])", r"\1", s): a run of whitespace that ends right
\* before one of . ! ? , : ; is removed
FixPunct(s) ==
    LET Dropped(i) ==
            /\ IsSpace(s[i])
            /\ LET j == SkipSpaces(s, i) IN j <= Len(s) /\ IsPunct(s[j])
        Kept(i) == ~Dropped(i)
        Out(i) == s[i]
    IN  Filtered(s, Kept, Out)

\* strip_html without the guard of lines 106-107
strip_html_unguarded(html_content) ==
    Call(FixPunct, Call(Strip, Call(CollapseWs, Call(SubTags, html_content))))

\* strip_html that replaces the tags after the whitespace clean-up
strip_html_tags_last(html_content) ==
    IF ~Truthy(html_content)
    THEN <<>>
    ELSE Call(FixPunct,
              Call(SubTags, Call(Strip, Call(CollapseWs, html_content))))

\* models.py:104-118
strip_html(html_content) ==
    IF ~Truthy(html_content)
    THEN <<>>
    ELSE Call(FixPunct,
              Call(Strip, Call(CollapseWs, Call(SubTags, html_content))))

---------------------------------------------------------------------------
(* truncate_content *)

\* the string literal appended at models.py:127; the source file holds the
\* three characters U+00E2 U+20AC U+00A6 between the quotes
TruncationSuffix == <<"U+00E2", "U+20AC", "U+00A6">>

\* truncate_content with "<" for "<=" in its test
truncate_content_strict(content, max_length) ==
    IF Len(content) < max_length
    THEN <<content, FALSE>>
    ELSE <<SlicePrefix(content, max_length - 1) \o TruncationSuffix, TRUE>>

\* the returned pair (content, was_truncated)
truncate_content(content, max_length) ==
    IF Len(content) <= max_length
    THEN <<content, FALSE>>
    ELSE <<SlicePrefix(content, max_length - 1) \o TruncationSuffix, TRUE>>

---------------------------------------------------------------------------
(* is_single_sentence_summary *)

ShortContentLimit == 20
VeryShortLimit == 100
FewSentencesLimit == 300
KeywordLimit == 400
FewSentences == 2

summary_keywords ==
    << <<"s","u","m","m","a","r","y">>, <<"e","x","c","e","r","p","t">>,
       <<"b","r","i","e","f">>, <<"o","v","e","r","v","i","e","w">>,
       <<"a","b","s","t","r","a","c","t">> >>

\* the first index > i of s that holds no sentence-ending character
RECURSIVE SkipSentenceEnds(_, _)
SkipSentenceEnds(s, i) ==
    IF i <= Len(s) /\ IsSentenceEnd(s[i]) THEN SkipSentenceEnds(s, i + 1) ELSE i

\* len(re.findall(r"[.!?]+(?:\s|$)", s)): a match starts where a run of
\* . ! ? starts, takes the whole run, and needs whitespace or the end of the
\* string after it (a shorter part of the run is followed by . ! or ?)
SentenceEndings(s) ==
    Cardinality({i \in 1..Len(s) :
        /\ IsSentenceEnd(s[i])
        /\ (i = 1 \/ ~IsSentenceEnd(s[i - 1]))
        /\ LET j == SkipSentenceEnds(s, i) IN j > Len(s) \/ IsSpace(s[j])})

\* has_summary_keywords without the lower()
has_summary_keywords_case_sensitive(clean_content) ==
    \E k \in 1..Len(summary_keywords) :
        Contains(clean_content, summary_keywords[k])

has_summary_keywords(clean_content) ==
    \E content_lower \in {Lower(clean_content)} :
        \E k \in 1..Len(summary_keywords) :
            Contains(content_lower, summary_keywords[k])

\* is_single_sentence_summary with "<=" for "<" in the keyword test
is_single_sentence_summary_keyword_at_limit(content) ==
    IF ~Truthy(content) \/ Len(Strip(content)) < ShortContentLimit
    THEN TRUE
    ELSE \E clean_content \in {Call(Strip, strip_html(content))} :
         LET sentence_count == SentenceEndings(clean_content)
         IN  \/ Len(clean_content) < VeryShortLimit
             \/ (sentence_count <= FewSentences
                    /\ Len(clean_content) < FewSentencesLimit)
             \/ (has_summary_keywords(clean_content)
                    /\ Len(clean_content) <= KeywordLimit)

\* models.py:131-164
is_single_sentence_summary(content) ==
    IF ~Truthy(content) \/ Len(Strip(content)) < ShortContentLimit
    THEN TRUE
    ELSE \E clean_content \in {Call(Strip, strip_html(content))} :
         LET sentence_count == SentenceEndings(clean_content)
         IN  \/ Len(clean_content) < VeryShortLimit
             \/ (sentence_count <= FewSentences
                    /\ Len(clean_content) < FewSentencesLimit)
             \/ (has_summary_keywords(clean_content)
                    /\ Len(clean_content) < KeywordLimit)

---------------------------------------------------------------------------
(* fetch_article_content *)

MinFetchedLength == 200

content_selectors ==
    <<"article", "[role=\"main\"]", ".content", ".post-content",
      ".article-content", ".entry-content", "main", ".main-content">>

\* A response is [error, page].  error is "none" when client.get returned and
\* raise_for_status passed.  page.sel[k] is the text (get_text(separator=" ",
\* strip=True)) of the element soup.select_one(content_selectors[k]) returns,
\* page.body that of soup.find("body"); None where there is no such element.
\* the selector loop without its break: the last matching selector wins
content_element_last_match(page) ==
    LET matched == {k \in 1..Len(content_selectors) : page.sel[k] # None}
    IN  IF matched # {}
        THEN page.sel[CHOOSE k \in matched : \A j \in matched : j <= k]
        ELSE page.body

\* the selector loop going on to later selectors and to the body when the
\* text of a matched element is not long enough
content_element_first_substantial(page) ==
    LET Long(element) ==
            /\ element # None
            /\ Len(Call(Strip, Call(CollapseWs, element))) > MinFetchedLength
        long == {k \in 1..Len(content_selectors) : Long(page.sel[k])}
        matched == {k \in 1..Len(content_selectors) : page.sel[k] # None}
    IN  IF long # {} THEN page.sel[SetMin(long)]
        ELSE IF Long(page.body) \/ matched = {} THEN page.body
        ELSE page.sel[SetMin(matched)]

\* lines 210-218: the first selector that matches, else the body
content_element(page) ==
    LET matched == {k \in 1..Len(content_selectors) : page.sel[k] # None}
    IN  IF matched # {} THEN page.sel[SetMin(matched)] ELSE page.body

\* lines 222-225: get_text, then re.sub(r"\s+", " ", text).strip()
extracted_text(element) == Call(Strip, Call(CollapseWs, element))

\* substantial with ">=" for ">"
substantial_from_limit(text_content) == Len(text_content) >= MinFetchedLength

\* line 228
substantial(text_content) == Len(text_content) > MinFetchedLength

\* What a response raises inside the try block: "request_error" and "timeout"
\* are httpx.RequestError (client.get), "status_error" is the
\* httpx.HTTPStatusError of raise_for_status, "other_error" any other
\* Exception raised while the page is parsed or its text extracted.
RequestErrorKinds == {"request_error", "timeout"}
ErrorKinds == RequestErrorKinds \cup {"status_error", "other_error"}

\* the except clauses with the "except Exception" clause left out
caught_request_errors_only(kind) == kind \in RequestErrorKinds

\* lines 234-239: except httpx.RequestError, then except Exception
caught(kind) == kind \in RequestErrorKinds \/ kind \in ErrorKinds

\* lines 180-232, the try block: what it raises and what it returns
try_block(response) ==
    IF response.error # "none"
    THEN [raised |-> response.error, value |-> None]
    ELSE LET element == content_element(response.page)
         IN  [raised |-> "none",
              value |-> IF element # None /\ substantial(extracted_text(element))
                        THEN extracted_text(element)
                        ELSE None]

\* fetch_outcome without the except clauses
fetch_outcome_unhandled(response) == try_block(response)

\* the call as its caller sees it: what it raises and what it returns
fetch_outcome(response) ==
    LET r == try_block(response)
    IN  IF r.raised # "none" /\ caught(r.raised)
        THEN [raised |-> "none", value |-> None]
        ELSE r

fetch_article_content(response) == fetch_outcome(response).value

---------------------------------------------------------------------------
(* ArticleInput.from_entry *)

DefaultMaxContentLength == 500

UNTITLED == <<"U","n","t","i","t","l","e","d">>
UNKNOWN == <<"U","n","k","n","o","w","n">>
UNCATEGORIZED == <<"U","n","c","a","t","e","g","o","r","i","z","e","d">>

\* lines 297-300
entry_category(entry) ==
    IF entry.feed.present /\ entry.feed.category.present
            /\ Truthy(entry.feed.category.title)
    THEN entry.feed.category.title
    ELSE UNCATEGORIZED

\* article_input with the author copied as it is
article_input_author_copied(entry, working, max_length) ==
    LET tc == truncate_content(working, max_length)
    IN  [id |-> entry.id,
         title |-> Or(entry.title, UNTITLED),
         url |-> Or(entry.url, <<>>),
         published_at |-> entry.published_at,
         content |-> tc[1],
         source |-> IF entry.feed.present THEN entry.feed.title ELSE UNKNOWN,
         author |-> entry.author,
         category |-> entry_category(entry),
         truncated |-> tc[2],
         feed_id |-> entry.feed_id]

\* lines 294-313: truncate the working text and build the record
article_input(entry, working, max_length) ==
    LET tc == truncate_content(working, max_length)
    IN  [id |-> entry.id,
         title |-> Or(entry.title, UNTITLED),
         url |-> Or(entry.url, <<>>),
         published_at |-> entry.published_at,
         content |-> tc[1],
         source |-> IF entry.feed.present THEN entry.feed.title ELSE UNKNOWN,
         author |-> Or(entry.author, UNKNOWN),
         category |-> entry_category(entry),
         truncated |-> tc[2],
         feed_id |-> entry.feed_id]

\* working_text that never takes the fetched text
working_text_keeps_plain(fetched, plain) == plain

\* working_text that takes whatever the fetch returned
working_text_takes_fetched(fetched, plain) == fetched

\* lines 284-285: the fetched text replaces the working text when it is truthy
working_text(fetched, plain) == IF Truthy(fetched) THEN fetched ELSE plain

\* lines 267-274
entry_plain_content(entry) == strip_html(Or(entry.content, <<>>))

\* entry_should_fetch with "entry.url is not None" for the truth of entry.url
entry_should_fetch_url_not_none(entry, allow_fetch) ==
    /\ allow_fetch
    /\ entry.url # None
    /\ Call(is_single_sentence_summary, entry_plain_content(entry))

entry_should_fetch(entry, allow_fetch) ==
    /\ allow_fetch
    /\ Truthy(entry.url)
    /\ Call(is_single_sentence_summary, entry_plain_content(entry))

---------------------------------------------------------------------------
(* process_article (summarizer.py:24-115) *)

FUNCTION_NOT_FOUND ==
    <<"F", "u", "n", "c", "t", "i", "o", "n", " ", "n", "o", "t", " ", "f", "o", "u", "n", "d">>
TOOL_CALL_FAILED ==
    <<"T", "o", "o", "l", " ", "c", "a", "l", "l", " ", "f", "a", "i", "l", "e", "d">>
PROCESSING_FAILED ==
    <<"P", "r", "o", "c", "e", "s", "s", "i", "n", "g", " ", "f", "a", "i", "l", "e", "d">>

\* A chat outcome is [error, tool_calls]: error is "none" when client.chat
\* returned, and tool_calls is then response["message"].get("tool_calls"),
\* <<>> when it is absent or empty.  A tool call is [name, arguments], the
\* arguments a sequence of [key, type, value], one per key of the mapping.
ArgumentKeys(arguments) == {arguments[i].key : i \in 1..Len(arguments)}

\* summary_text with the last tool call for the first
summary_text_last_call(outcome) ==
    IF outcome.error # "none"
    THEN [raised |-> outcome.error, text |-> <<>>]
    ELSE IF outcome.tool_calls = <<>>
    THEN [raised |-> "none", text |-> TOOL_CALL_FAILED]
    ELSE LET tool_call == outcome.tool_calls[Len(outcome.tool_calls)]
         IN  IF tool_call.name # "summarize_article"
             THEN [raised |-> "none", text |-> FUNCTION_NOT_FOUND]
             ELSE IF ArgumentKeys(tool_call.arguments) # {"summary"}
             THEN [raised |-> "TypeError", text |-> <<>>]
             ELSE IF tool_call.arguments[1].type # "str"
             THEN [raised |-> "ValidationError", text |-> <<>>]
             ELSE [raised |-> "none", text |-> tool_call.arguments[1].value]

\* lines 29-95, the try block: the exception it raises or the summary text
\* it puts in the record.  summarize_article(**arguments) raises TypeError
\* unless the only key is "summary" (lines 11-21, 58); ArticleSummary
\* raises ValidationError for a summary that is not a str (line 64).
summary_text(outcome) ==
    IF outcome.error # "none"
    THEN [raised |-> outcome.error, text |-> <<>>]
    ELSE IF outcome.tool_calls = <<>>
    THEN [raised |-> "none", text |-> TOOL_CALL_FAILED]
    ELSE LET tool_call == outcome.tool_calls[1]
         IN  IF tool_call.name # "summarize_article"
             THEN [raised |-> "none", text |-> FUNCTION_NOT_FOUND]
             ELSE IF ArgumentKeys(tool_call.arguments) # {"summary"}
             THEN [raised |-> "TypeError", text |-> <<>>]
             ELSE IF tool_call.arguments[1].type # "str"
             THEN [raised |-> "ValidationError", text |-> <<>>]
             ELSE [raised |-> "none", text |-> tool_call.arguments[1].value]

\* article_summary without the truncated flag, which then takes its default
article_summary_flag_dropped(article, text) ==
    [id |-> article.id,
     title |-> article.title,
     url |-> article.url,
     published_at |-> article.published_at,
     source |-> article.source,
     author |-> article.author,
     summary |-> text,
     category |-> article.category,
     truncated |-> FALSE,
     feed_id |-> article.feed_id]

\* the ArticleSummary of lines 64-75, 84-95 and 104-115
article_summary(article, text) ==
    [id |-> article.id,
     title |-> article.title,
     url |-> article.url,
     published_at |-> article.published_at,
     source |-> article.source,
     author |-> article.author,
     summary |-> text,
     category |-> article.category,
     truncated |-> article.truncated,
     feed_id |-> article.feed_id]

\* the call as process_articles sees it: the except clause of lines 97-115
\* catches every Exception and returns the fallback record
process_article_outcome(article, outcome) ==
    LET r == summary_text(outcome)
    IN  [raised |-> "none",
         value |-> article_summary(article,
                                   IF r.raised = "none" THEN r.text
                                   ELSE PROCESSING_FAILED)]

process_article(article, outcome) == process_article_outcome(article, outcome).value

---------------------------------------------------------------------------
(* Inputs *)

MaxSentences == 3
MaxEntries == 2
MaxTextLen == 4
MaxBound == 5
MaxMatches == 2
MaxTokens == 3

NoKeyword == <<>>

\* A text of n characters: the keyword kw first, then words of "w", with k
\* sentence ends (one every ten characters, the last one at the end).
GenText(n, k, kw) ==
    [i \in 1..n |->
        IF i <= Len(kw) THEN kw[i]
        ELSE IF k > 0 /\ i = n THEN "."
        ELSE IF \E m \in 1..(k - 1) : i = 10 * m THEN "."
        ELSE IF \E m \in 1..(k - 1) : i = 10 * m + 1 THEN " "
        ELSE "w"]

\* the text as a feed delivers it: bare, inside a paragraph element, or
\* surrounded by whitespace
Wrapped(w, s) ==
    CASE w = "html" -> <<"<", "p", ">">> \o s \o <<"<", "/", "p", ">">>
      [] w = "padded" -> <<" ", "\n">> \o s \o <<" ", "\t">>
      [] OTHER -> s

\* the lengths on both sides of every threshold of the classifier
ThresholdLengths ==
    {0, ShortContentLimit - 1, ShortContentLimit,
     VeryShortLimit - 1, VeryShortLimit,
     FewSentencesLimit - 1, FewSentencesLimit,
     KeywordLimit - 1, KeywordLimit, KeywordLimit + 50}

KeywordChoices ==
    {NoKeyword, <<"b","r","i","e","f">>, <<"S","u","m","m","a","r","y">>,
     <<"a","b","s","t","r","a","c","t">>, <<"b","r","i","e">>}

ClassifyInputs ==
    {None} \cup
    {Wrapped(w, GenText(n, k, kw)) :
        w \in {"bare", "html", "padded"}, n \in ThresholdLengths,
        k \in 0..MaxSentences, kw \in KeywordChoices}

TruncateChars == {"a", "b", "U+2026"}
TruncateTexts == UNION {[1..m -> TruncateChars] : m \in 0..MaxTextLen}

\* the text of an element of a fetched page
ElementText(n) == [i \in 1..n |-> IF i % 7 = 0 THEN " " ELSE "f"]

NoSelector == [k \in 1..Len(content_selectors) |-> None]

Responses ==
    {[error |-> kind, page |-> [sel |-> NoSelector, body |-> None]] :
        kind \in ErrorKinds}
    \cup
    {[error |-> "none", page |-> [sel |-> NoSelector, body |-> None]],
     [error |-> "none",
      page |-> [sel |-> [NoSelector EXCEPT ![1] = ElementText(MinFetchedLength)],
                body |-> ElementText(MinFetchedLength + 400)]],
     [error |-> "none",
      page |-> [sel |-> [NoSelector EXCEPT ![1] = ElementText(MinFetchedLength + 1)],
                body |-> ElementText(MinFetchedLength + 400)]],
     [error |-> "none",
      page |-> [sel |-> NoSelector,
                body |-> ElementText(MinFetchedLength + 400)]]}

\* pieces of feed HTML: text, whitespace, punctuation, tags, a tag whose
\* attribute value holds ">", and stray angle brackets
HtmlTokens ==
    {<<"a">>, <<" ">>, <<"\n">>, <<".">>, <<",">>,
     <<"<", "p", ">">>, <<"<", "/", "p", ">">>,
     <<"<", "a", " ", "t", "=", "\"", ">", "\"", ">">>, <<"<", "/", "a", ">">>,
     <<"<">>, <<">">>}

RECURSIVE Concat(_)
Concat(tokens) ==
    IF tokens = <<>> THEN <<>> ELSE Head(tokens) \o Concat(Tail(tokens))

StripInputs ==
    {None} \cup
    UNION {{Concat(tokens) : tokens \in [1..m -> HtmlTokens]} : m \in 0..MaxTokens}

\* the text of the element that a selector matches: every selector's
\* element has its own letter, the body's text the letter "z"
SelectorLetter(k) == <<"a", "b", "c", "d", "e", "f", "g", "h", "z">>[k]

PlainText(k, n) == [i \in 1..n |-> IF i % 7 = 0 THEN " " ELSE SelectorLetter(k)]

\* the same with the line breaks and indentation that get_text leaves
PaddedText(k, n) ==
    [i \in 1..n |-> IF i % 8 = 7 THEN "\n"
                    ELSE IF i % 8 = 0 THEN " "
                    ELSE SelectorLetter(k)]

FirstTexts(k) ==
    {PlainText(k, MinFetchedLength), PlainText(k, MinFetchedLength + 1),
     PaddedText(k, MinFetchedLength + 20), PaddedText(k, MinFetchedLength + 44)}

OtherTexts(k) ==
    {PlainText(k, MinFetchedLength), PlainText(k, MinFetchedLength + 1)}

BodyTexts == {None} \cup OtherTexts(Len(content_selectors) + 1)

MatchSets ==
    {S \in SUBSET (1..Len(content_selectors)) : Cardinality(S) <= MaxMatches}

\* the pages in which the selectors of S match, the earliest of them an
\* element of text first and the others elements of other[k] characters
Pages ==
    UNION {{[sel |-> [k \in 1..Len(content_selectors) |->
                         IF k \notin S THEN None
                         ELSE IF k = SetMin(S) THEN first
                         ELSE PlainText(k, other[k])],
             body |-> body] :
               first \in (IF S = {} THEN {None} ELSE FirstTexts(SetMin(S))),
               other \in [S -> {MinFetchedLength, MinFetchedLength + 1}],
               body \in BodyTexts} : S \in MatchSets}

FetchResponses ==
    {[error |-> kind, page |-> [sel |-> NoSelector, body |-> None]] :
        kind \in ErrorKinds}
    \cup {[error |-> "none", page |-> page] : page \in Pages}

URL == <<"h","t","t","p",":","/","/","x">>
TEASER == <<"<","p",">","B","r","i","e","f"," ","s","u","m","m","a","r","y",".","<","/","p",">">>

NoCategory == [present |-> FALSE]
NoFeed == [present |-> FALSE]
Category(title) == [present |-> TRUE, title |-> title]
Feed(title, category) == [present |-> TRUE, title |-> title, category |-> category]

TechFeed == Feed(<<"F">>, Category(<<"T","e","c","h">>))

Feeds ==
    {NoFeed, Feed(<<"F">>, NoCategory), Feed(<<"F">>, Category(None)),
     Feed(<<"F">>, Category(<<>>)), TechFeed, Feed(<<>>, Category(<<"C">>))}

EntryContents ==
    {None, <<>>, TEASER,
     GenText(VeryShortLimit - 1, 3, NoKeyword),
     GenText(VeryShortLimit, 3, NoKeyword),
     Wrapped("html", GenText(FewSentencesLimit - 1, 2, NoKeyword)),
     GenText(FewSentencesLimit, 2, NoKeyword),
     GenText(KeywordLimit - 1, 3, <<"b","r","i","e","f">>),
     GenText(KeywordLimit, 3, <<"b","r","i","e","f">>),
     GenText(DefaultMaxContentLength + 20, 3, NoKeyword)}

\* entries that differ in content and url
ContentEntries ==
    {[id |-> 7, feed_id |-> 3, title |-> <<"T">>, url |-> u, author |-> <<"A">>,
      content |-> c, published_at |-> <<"P">>, feed |-> TechFeed] :
        c \in EntryContents, u \in {None, <<>>, URL}}

\* entries that differ in the optional fields
FieldEntries ==
    {[id |-> 8, feed_id |-> 4, title |-> ti, url |-> None, author |-> au,
      content |-> TEASER, published_at |-> pa, feed |-> fe] :
        ti \in {None, <<>>, <<"T">>}, au \in {None, <<>>, <<"A">>},
        pa \in {None, <<"P">>}, fe \in Feeds}

BatchEntries ==
    {[id |-> 1, feed_id |-> 3, title |-> <<"T">>, url |-> URL, author |-> None,
      content |-> TEASER, published_at |-> None, feed |-> TechFeed],
     [id |-> 2, feed_id |-> 3, title |-> None, url |-> URL, author |-> <<"A">>,
      content |-> GenText(DefaultMaxContentLength + 20, 3, NoKeyword),
      published_at |-> <<"P">>, feed |-> NoFeed]}

\* a batch of several entries, as get_entries delivers it, or a single entry
Batches ==
    {<<e>> : e \in ContentEntries \cup FieldEntries}
    \cup UNION {{[i \in 1..m |-> [id |-> i] @@ b[i]] : b \in [1..m -> BatchEntries]} :
                   m \in 2..MaxEntries}

MaxLengths == {0, 1, 50, DefaultMaxContentLength}

\* the answers of the model client
SUMMARY == <<"T", "w", "o", " ", "s", "e", "n", "t", "e", "n", "c", "e", "s", ".", " ", "O", "f", " ", "s", "u", "m", "m", "a", "r", "y", ".">>

Argument(key, type, value) == [key |-> key, type |-> type, value |-> value]
ToolCall(name, arguments) == [name |-> name, arguments |-> arguments]

SummarizeCall(text) ==
    ToolCall("summarize_article", <<Argument("summary", "str", text)>>)
OtherCall == ToolCall("search_web", <<Argument("summary", "str", SUMMARY)>>)

ToolCallLists ==
    {<<>>,
     <<SummarizeCall(SUMMARY)>>,
     <<SummarizeCall(<<>>)>>,
     <<OtherCall>>,
     <<SummarizeCall(SUMMARY), OtherCall>>,
     <<OtherCall, SummarizeCall(SUMMARY)>>,
     <<ToolCall("summarize_article", <<>>)>>,
     <<ToolCall("summarize_article",
                <<Argument("summary", "str", SUMMARY),
                  Argument("title", "str", SUMMARY)>>)>>,
     <<ToolCall("summarize_article", <<Argument("text", "str", SUMMARY)>>)>>,
     <<ToolCall("summarize_article", <<Argument("summary", "int", <<"7">>)>>)>>}

ChatOutcomes ==
    {[error |-> kind, tool_calls |-> <<>>] :
        kind \in {"ConnectionError", "TimeoutError"}}
    \cup {[error |-> "none", tool_calls |-> calls] : calls \in ToolCallLists}

\* the answers of the model client that differ in the summary they lead to
RunChatOutcomes ==
    {[error |-> "TimeoutError", tool_calls |-> <<>>],
     [error |-> "none", tool_calls |-> <<>>],
     [error |-> "none", tool_calls |-> <<SummarizeCall(SUMMARY)>>],
     [error |-> "none", tool_calls |-> <<OtherCall>>]}

\* what get_entries delivers: nothing, or up to MaxEntries entries, each
\* with a teaser or with a full text, ids by position
RunBatches ==
    {[i \in DOMAIN teaser |->
        [id |-> i] @@
        (IF teaser[i]
         THEN [feed_id |-> 3, title |-> <<"T">>, url |-> URL, author |-> None,
               content |-> TEASER, published_at |-> None, feed |-> TechFeed]
         ELSE [feed_id |-> 3, title |-> None, url |-> URL, author |-> <<"A">>,
               content |-> GenText(DefaultMaxContentLength + 20, 3, NoKeyword),
               published_at |-> <<"P">>, feed |-> NoFeed])] :
        teaser \in UNION {[1..m -> BOOLEAN] : m \in 0..MaxEntries}}

\* the name of the written report
OUTPUT_FILE == <<"s", "u", "m", "m", "a", "r", "y", ".", "h", "t", "m", "l">>

\* the articles that from_entry makes of the entries, without a fetch
SummarizeArticles ==
    {article_input(entry, entry_plain_content(entry), DefaultMaxContentLength) :
        entry \in ContentEntries \cup FieldEntries}

---------------------------------------------------------------------------
(* The conversion loop of fetch_articles (fetcher.py:70-79) around          *)
(* ArticleInput.from_entry (models.py:258-313).  fetch_articles passes the *)
(* default parameters; a single entry is also converted with others, as    *)
(* the callers in tests/ do.                                               *)

PipelineIdle ==
    /\ entries = <<>>
    /\ max_content_length = DefaultMaxContentLength
    /\ fetch_full_content = TRUE
    /\ pc = "idle"
    /\ idx = 0
    /\ plain_content = <<>>
    /\ should_fetch = FALSE
    /\ full_content = Unset
    /\ articles_for_ai = <<>>
    /\ fetch_calls = <<>>
    /\ attempts = <<>>
    /\ conversion_errors = {}
    /\ fetch_response = <<>>
    /\ resolving = {}

TruncateIdle ==
    t_content = <<>> /\ t_max = 0 /\ t_first = <<>> /\ t_second = <<>>

ClassifyIdle == c_content = None /\ c_result = <<>>

FetchIdle == f_response = <<>> /\ f_element = Unset /\ f_outcome = <<>>

StripIdle == s_html = None /\ s_result = <<>>

SummarizeIdle == p_article = <<>> /\ p_outcome = <<>> /\ p_summary = <<>>

RunIdle ==
    /\ r_pc = "idle"
    /\ r_result = Unset
    /\ feed_raised = FALSE
    /\ summaries = <<>>
    /\ sum_idx = 0
    /\ summarizing = {}
    /\ model_outcome = <<>>
    /\ process_calls = 0
    /\ render_calls = 0

Init ==
    /\ entries \in Batches
    /\ max_content_length \in MaxLengths
    /\ fetch_full_content \in BOOLEAN
    /\ Len(entries) > 1 =>
          max_content_length = DefaultMaxContentLength /\ fetch_full_content
    /\ pc = "loop"
    /\ idx = 0
    /\ plain_content = <<>>
    /\ should_fetch = FALSE
    /\ full_content = Unset
    /\ articles_for_ai = <<>>
    /\ fetch_calls = [i \in 1..Len(entries) |-> 0]
    /\ attempts = [i \in 1..Len(entries) |-> 0]
    /\ conversion_errors = {}
    /\ fetch_response = <<>>
    /\ resolving = {}
    /\ TruncateIdle
    /\ ClassifyIdle
    /\ FetchIdle
    /\ StripIdle
    /\ SummarizeIdle
    /\ RunIdle

\* from_entry up to its return, for an entry that needs no fetch
ConvertEntry ==
    /\ pc = "loop"
    /\ idx < Len(entries)
    /\ LET entry == entries[idx + 1]
       IN  /\ ~entry_should_fetch(entry, fetch_full_content)
           /\ plain_content' = entry_plain_content(entry)
           /\ articles_for_ai' =
                 Append(articles_for_ai,
                        article_input(entry, entry_plain_content(entry),
                                      max_content_length))
    /\ should_fetch' = FALSE
    /\ full_content' = Unset
    /\ attempts' = [attempts EXCEPT ![idx + 1] = @ + 1]
    /\ idx' = idx + 1
    /\ UNCHANGED <<entries, max_content_length, fetch_full_content, pc,
                   fetch_calls, conversion_errors, fetch_response, resolving,
                   truncate_vars, classify_vars,
                   fetch_vars, strip_vars, summarize_vars, run_vars>>

\* CallFetch that does not wait for the fetch in progress
CallFetch_concurrent ==
    /\ pc \in {"loop", "await_fetch"}
    /\ idx < Len(entries)
    /\ LET entry == entries[idx + 1]
       IN  /\ entry_should_fetch(entry, fetch_full_content)
           /\ plain_content' = entry_plain_content(entry)
    /\ should_fetch' = TRUE
    /\ full_content' = Unset
    /\ fetch_calls' = [fetch_calls EXCEPT ![idx + 1] = @ + 1]
    /\ attempts' = [attempts EXCEPT ![idx + 1] = @ + 1]
    /\ idx' = idx + 1
    /\ pc' = "await_fetch"
    /\ fetch_response' \in Responses
    /\ resolving' = resolving \cup {idx + 1}
    /\ UNCHANGED <<entries, max_content_length, fetch_full_content,
                   articles_for_ai, conversion_errors, truncate_vars,
                   classify_vars, fetch_vars, strip_vars, summarize_vars,
                   run_vars>>

\* from_entry up to its call of fetch_article_content (line 283)
CallFetch ==
    /\ pc = "loop"
    /\ idx < Len(entries)
    /\ LET entry == entries[idx + 1]
       IN  /\ entry_should_fetch(entry, fetch_full_content)
           /\ plain_content' = entry_plain_content(entry)
    /\ should_fetch' = TRUE
    /\ full_content' = Unset
    /\ fetch_calls' = [fetch_calls EXCEPT ![idx + 1] = @ + 1]
    /\ attempts' = [attempts EXCEPT ![idx + 1] = @ + 1]
    /\ idx' = idx + 1
    /\ pc' = "await_fetch"
    /\ fetch_response' \in Responses
    /\ resolving' = resolving \cup {idx + 1}
    /\ UNCHANGED <<entries, max_content_length, fetch_full_content,
                   articles_for_ai, conversion_errors, truncate_vars, classify_vars,
                   fetch_vars, strip_vars, summarize_vars, run_vars>>

\* FetchReturns with a second call of fetch_article_content after a None
FetchReturns_retrying ==
    /\ pc = "await_fetch"
    /\ LET outcome == fetch_outcome(fetch_response)
          IN  IF outcome.value = None /\ fetch_calls[idx] < 2
              THEN /\ fetch_calls' = [fetch_calls EXCEPT ![idx] = @ + 1]
                   /\ UNCHANGED <<full_content, plain_content, articles_for_ai,
                                  pc>>
              ELSE /\ full_content' = outcome.value
                   /\ plain_content' = working_text(outcome.value, plain_content)
                   /\ articles_for_ai' =
                         Append(articles_for_ai,
                                article_input(entries[idx],
                                              working_text(outcome.value,
                                                           plain_content),
                                              max_content_length))
                   /\ pc' = "loop"
                   /\ UNCHANGED fetch_calls
    /\ resolving' = IF pc' = "loop" THEN resolving \ {idx} ELSE resolving
    /\ UNCHANGED <<entries, max_content_length, fetch_full_content, idx,
                   should_fetch, attempts, conversion_errors, fetch_response,
                   truncate_vars,
                   classify_vars, fetch_vars, strip_vars, summarize_vars, run_vars>>

\* FetchReturns for a request without a timeout: a server that does not
\* answer is waited for without end
FetchReturns_blocking ==
    /\ pc = "await_fetch"
    /\ fetch_response.error # "timeout"
    /\ LET outcome == fetch_outcome(fetch_response)
           working == working_text(outcome.value, plain_content)
       IN  /\ full_content' = outcome.value
           /\ plain_content' = working
           /\ articles_for_ai' =
                 Append(articles_for_ai,
                        article_input(entries[idx], working,
                                      max_content_length))
    /\ pc' = "loop"
    /\ resolving' = resolving \ {idx}
    /\ UNCHANGED <<entries, max_content_length, fetch_full_content, idx,
                   should_fetch, fetch_calls, attempts, conversion_errors,
                   fetch_response, truncate_vars, classify_vars, fetch_vars,
                   strip_vars, summarize_vars, run_vars>>

\* fetch_article_content returns and from_entry goes on to its return; an
\* exception that fetch_article_content lets out leaves from_entry, which
\* has no handler, and fetch_articles logs it and continues (fetcher.py:75-77)
FetchReturns ==
    /\ pc = "await_fetch"
    /\ LET outcome == fetch_outcome(fetch_response)
              working == working_text(outcome.value, plain_content)
          IN  IF outcome.raised = "none"
              THEN /\ full_content' = outcome.value
                   /\ plain_content' = working
                   /\ articles_for_ai' =
                         Append(articles_for_ai,
                                article_input(entries[idx], working,
                                              max_content_length))
                   /\ UNCHANGED conversion_errors
              ELSE /\ conversion_errors' = conversion_errors \cup {idx}
                   /\ UNCHANGED <<full_content, plain_content, articles_for_ai>>
    /\ pc' = "loop"
    /\ resolving' = resolving \ {idx}
    /\ UNCHANGED <<entries, max_content_length, fetch_full_content, idx,
                   should_fetch, fetch_calls, attempts, fetch_response,
                   truncate_vars,
                   classify_vars, fetch_vars, strip_vars, summarize_vars, run_vars>>

\* fetch_articles returns articles_for_ai (line 79)
ReturnArticles ==
    /\ pc = "loop"
    /\ idx = Len(entries)
    /\ pc' = "done"
    /\ UNCHANGED <<entries, max_content_length, fetch_full_content, idx,
                   plain_content, should_fetch, full_content, articles_for_ai,
                   fetch_calls, attempts, conversion_errors, fetch_response, resolving,
                   truncate_vars, classify_vars,
                   fetch_vars, strip_vars, summarize_vars, run_vars>>

Next == ConvertEntry \/ CallFetch \/ FetchReturns \/ ReturnArticles

Spec == Init /\ [][Next]_vars

---------------------------------------------------------------------------
(* The conversion loop with conversions that raise.  from_entry itself    *)
(* lets no exception out, so the except branch of fetcher.py:75-77 is      *)
(* entered only when from_entry is replaced by a function that raises, as  *)
(* tests/test_integration.py:528-532 does.                                 *)

\* ConversionRaises with "break" for "continue": the loop ends
ConversionRaises_aborting ==
    /\ pc = "loop"
    /\ idx < Len(entries)
    /\ attempts' = [attempts EXCEPT ![idx + 1] = @ + 1]
    /\ conversion_errors' = conversion_errors \cup {idx + 1}
    /\ idx' = Len(entries)
    /\ UNCHANGED <<entries, max_content_length, fetch_full_content, pc,
                   plain_content, should_fetch, full_content, articles_for_ai,
                   fetch_calls, fetch_response, resolving, truncate_vars,
                   classify_vars, fetch_vars,
                   strip_vars, summarize_vars, run_vars>>

\* the call of from_entry raises: the warning is logged and the loop goes
\* on with the next entry (fetcher.py:72-77)
ConversionRaises ==
    /\ pc = "loop"
    /\ idx < Len(entries)
    /\ attempts' = [attempts EXCEPT ![idx + 1] = @ + 1]
    /\ conversion_errors' = conversion_errors \cup {idx + 1}
    /\ idx' = idx + 1
    /\ UNCHANGED <<entries, max_content_length, fetch_full_content, pc,
                   plain_content, should_fetch, full_content, articles_for_ai,
                   fetch_calls, fetch_response, resolving, truncate_vars,
                   classify_vars, fetch_vars,
                   strip_vars, summarize_vars, run_vars>>

NextFaults ==
    ConvertEntry \/ CallFetch \/ FetchReturns \/ ReturnArticles
        \/ ConversionRaises

SpecFaults == Init /\ [][NextFaults]_vars

---------------------------------------------------------------------------
(* run_summarization (core.py:10-36): fetch_articles with its call of the  *)
(* feed API, process_articles (summarizer.py:118-131) and the renderer.    *)

InitRun ==
    /\ entries \in RunBatches
    /\ max_content_length = DefaultMaxContentLength
    /\ fetch_full_content = TRUE
    /\ pc = "get_entries"
    /\ idx = 0
    /\ plain_content = <<>>
    /\ should_fetch = FALSE
    /\ full_content = Unset
    /\ articles_for_ai = <<>>
    /\ fetch_calls = [i \in 1..Len(entries) |-> 0]
    /\ attempts = [i \in 1..Len(entries) |-> 0]
    /\ conversion_errors = {}
    /\ fetch_response = <<>>
    /\ resolving = {}
    /\ r_pc = "fetch_articles"
    /\ r_result = Unset
    /\ feed_raised = FALSE
    /\ summaries = <<>>
    /\ sum_idx = 0
    /\ summarizing = {}
    /\ model_outcome = <<>>
    /\ process_calls = 0
    /\ render_calls = 0
    /\ TruncateIdle
    /\ ClassifyIdle
    /\ FetchIdle
    /\ StripIdle
    /\ SummarizeIdle

\* fetcher.py:42-67: get_entries or model_validate raises, or there is no
\* entry, and fetch_articles returns []; else the loop begins
GetEntries ==
    /\ pc = "get_entries"
    /\ \E raised \in BOOLEAN :
          /\ feed_raised' = raised
          /\ pc' = IF raised \/ entries = <<>> THEN "done" ELSE "loop"
    /\ UNCHANGED <<entries, max_content_length, fetch_full_content, idx,
                   plain_content, should_fetch, full_content, articles_for_ai,
                   fetch_calls, attempts, conversion_errors, fetch_response,
                   resolving, r_pc, r_result, summaries, sum_idx, summarizing,
                   model_outcome, process_calls, render_calls, truncate_vars,
                   classify_vars, fetch_vars, strip_vars, summarize_vars>>

\* CheckArticles without the test of core.py:21
CheckArticles_unchecked ==
    /\ pc = "done"
    /\ r_pc = "fetch_articles"
    /\ r_pc' = "process_articles"
    /\ process_calls' = process_calls + 1
    /\ UNCHANGED <<pipeline_vars, r_result, feed_raised, summaries, sum_idx,
                   summarizing, model_outcome, render_calls, truncate_vars,
                   classify_vars, fetch_vars, strip_vars, summarize_vars>>

\* core.py:19-28: fetch_articles has returned; without articles
\* run_summarization returns None, else it calls process_articles
CheckArticles ==
    /\ pc = "done"
    /\ r_pc = "fetch_articles"
    /\ IF articles_for_ai = <<>>
       THEN /\ r_pc' = "returned"
            /\ r_result' = None
            /\ UNCHANGED process_calls
       ELSE /\ r_pc' = "process_articles"
            /\ process_calls' = process_calls + 1
            /\ UNCHANGED r_result
    /\ UNCHANGED <<pipeline_vars, feed_raised, summaries, sum_idx,
                   summarizing, model_outcome, render_calls, truncate_vars,
                   classify_vars, fetch_vars, strip_vars, summarize_vars>>

\* summarizer.py:124-126 and 29-52: process_article is called for the next
\* article and awaits client.chat
CallModel ==
    /\ r_pc = "process_articles"
    /\ sum_idx < Len(articles_for_ai)
    /\ model_outcome' \in RunChatOutcomes
    /\ summarizing' = summarizing \cup {sum_idx + 1}
    /\ sum_idx' = sum_idx + 1
    /\ r_pc' = "await_model"
    /\ UNCHANGED <<pipeline_vars, r_result, feed_raised, summaries,
                   process_calls, render_calls, truncate_vars, classify_vars,
                   fetch_vars, strip_vars, summarize_vars>>

\* ModelReturns that drops the article when the model client raised
ModelReturns_dropping ==
    /\ r_pc = "await_model"
    /\ summaries' =
          IF model_outcome.error = "none"
          THEN Append(summaries,
                      process_article(articles_for_ai[sum_idx], model_outcome))
          ELSE summaries
    /\ summarizing' = summarizing \ {sum_idx}
    /\ r_pc' = "process_articles"
    /\ UNCHANGED <<pipeline_vars, r_result, feed_raised, sum_idx,
                   model_outcome, process_calls, render_calls, truncate_vars,
                   classify_vars, fetch_vars, strip_vars, summarize_vars>>

\* summarizer.py:54-115 and 127-129: client.chat has returned or raised;
\* process_article returns and its summary is appended (an exception that
\* process_article let out would be logged and the article dropped)
ModelReturns ==
    /\ r_pc = "await_model"
    /\ LET outcome ==
              process_article_outcome(articles_for_ai[sum_idx], model_outcome)
       IN  summaries' = IF outcome.raised = "none"
                        THEN Append(summaries, outcome.value)
                        ELSE summaries
    /\ summarizing' = summarizing \ {sum_idx}
    /\ r_pc' = "process_articles"
    /\ UNCHANGED <<pipeline_vars, r_result, feed_raised, sum_idx,
                   model_outcome, process_calls, render_calls, truncate_vars,
                   classify_vars, fetch_vars, strip_vars, summarize_vars>>

\* summarizer.py:131 and core.py:28-36: process_articles has returned;
\* without summaries run_summarization returns None, else what
\* generate_html_output returns, the file's name or None (renderer.py:57-70)
CheckSummaries ==
    /\ r_pc = "process_articles"
    /\ sum_idx = Len(articles_for_ai)
    /\ IF summaries = <<>>
       THEN /\ r_result' = None
            /\ UNCHANGED render_calls
       ELSE /\ r_result' \in {OUTPUT_FILE, None}
            /\ render_calls' = render_calls + 1
    /\ r_pc' = "returned"
    /\ UNCHANGED <<pipeline_vars, feed_raised, summaries, sum_idx,
                   summarizing, model_outcome, process_calls, truncate_vars,
                   classify_vars, fetch_vars, strip_vars, summarize_vars>>

NextRun ==
    \/ GetEntries
    \/ ConvertEntry
    \/ CallFetch
    \/ FetchReturns
    \/ ConversionRaises
    \/ ReturnArticles
    \/ CheckArticles
    \/ CallModel
    \/ ModelReturns
    \/ CheckSummaries

SpecRun == InitRun /\ [][NextRun]_vars

\* every call that run_summarization awaits returns or fails in the end, and
\* the event loop goes on with the coroutine
SpecRunLive == InitRun /\ [][NextRun]_vars /\ WF_vars(NextRun)

---------------------------------------------------------------------------
(* truncate_content, called on a text and then on its own result *)

InitTruncate ==
    /\ PipelineIdle
    /\ SummarizeIdle
    /\ RunIdle
    /\ ClassifyIdle
    /\ FetchIdle
    /\ StripIdle
    /\ t_content \in TruncateTexts
    /\ t_max \in 0..MaxBound
    /\ t_first = <<>>
    /\ t_second = <<>>

Truncate ==
    /\ t_first = <<>>
    /\ t_first' = truncate_content(t_content, t_max)
    /\ UNCHANGED <<t_content, t_max, t_second, pipeline_vars, classify_vars,
                   fetch_vars, strip_vars, summarize_vars, run_vars>>

TruncateAgain ==
    /\ t_first # <<>>
    /\ t_second = <<>>
    /\ t_second' = truncate_content(t_first[1], t_max)
    /\ UNCHANGED <<t_content, t_max, t_first, pipeline_vars, classify_vars,
                   fetch_vars, strip_vars, summarize_vars, run_vars>>

NextTruncate == Truncate \/ TruncateAgain

SpecTruncate == InitTruncate /\ [][NextTruncate]_vars

---------------------------------------------------------------------------
(* is_single_sentence_summary, called on a text *)

InitClassify ==
    /\ PipelineIdle
    /\ SummarizeIdle
    /\ RunIdle
    /\ TruncateIdle
    /\ FetchIdle
    /\ StripIdle
    /\ c_content \in ClassifyInputs
    /\ c_result = <<>>

Classify ==
    /\ c_result = <<>>
    /\ c_result' = <<is_single_sentence_summary(c_content)>>
    /\ UNCHANGED <<c_content, pipeline_vars, truncate_vars, fetch_vars,
                   strip_vars, summarize_vars, run_vars>>

NextClassify == Classify

SpecClassify == InitClassify /\ [][NextClassify]_vars

---------------------------------------------------------------------------
(* fetch_article_content, called for a response of the server *)

InitFetch ==
    /\ PipelineIdle
    /\ SummarizeIdle
    /\ RunIdle
    /\ TruncateIdle
    /\ ClassifyIdle
    /\ StripIdle
    /\ f_response \in FetchResponses
    /\ f_element = Unset
    /\ f_outcome = <<>>

\* the call: content_element is the local of lines 210-218, left unset when
\* the try block is left before it
Fetch ==
    /\ f_outcome = <<>>
    /\ f_element' = IF f_response.error = "none"
                    THEN content_element(f_response.page)
                    ELSE Unset
    /\ f_outcome' = <<fetch_outcome(f_response)>>
    /\ UNCHANGED <<f_response, pipeline_vars, truncate_vars, classify_vars,
                   strip_vars, summarize_vars, run_vars>>

NextFetch == Fetch

SpecFetch == InitFetch /\ [][NextFetch]_vars

---------------------------------------------------------------------------
(* strip_html, called on a text *)

InitStrip ==
    /\ PipelineIdle
    /\ SummarizeIdle
    /\ RunIdle
    /\ TruncateIdle
    /\ ClassifyIdle
    /\ FetchIdle
    /\ s_html \in StripInputs
    /\ s_result = <<>>

StripHtml ==
    /\ s_result = <<>>
    /\ s_result' = <<strip_html(s_html)>>
    /\ UNCHANGED <<s_html, pipeline_vars, truncate_vars, classify_vars,
                   fetch_vars, summarize_vars, run_vars>>

NextStrip == StripHtml

SpecStrip == InitStrip /\ [][NextStrip]_vars

---------------------------------------------------------------------------
(* process_article, called for an article and an answer of the model *)

InitSummarize ==
    /\ PipelineIdle
    /\ TruncateIdle
    /\ ClassifyIdle
    /\ FetchIdle
    /\ StripIdle
    /\ RunIdle
    /\ p_article \in SummarizeArticles
    /\ p_outcome \in ChatOutcomes
    /\ p_summary = <<>>

Summarize ==
    /\ p_summary = <<>>
    /\ p_summary' = <<process_article_outcome(p_article, p_outcome)>>
    /\ UNCHANGED <<p_article, p_outcome, pipeline_vars, truncate_vars,
                   classify_vars, fetch_vars, strip_vars, run_vars>>

NextSummarize == Summarize

SpecSummarize == InitSummarize /\ [][NextSummarize]_vars

---------------------------------------------------------------------------
(* Claims about ArticleInput.from_entry, checked under Spec *)

\* the conversion of entry idx has returned
Converted == idx >= 1 /\ pc \in {"loop", "done"}
LastEntry == entries[idx]
LastArticle == articles_for_ai[idx]

\* C1: fetch_article_content is called for an entry if and only if
\* fetch_full_content is true, the entry's url is present and non-empty, and
\* is_single_sentence_summary(strip_html(entry.content)) is true; an entry
\* whose conversion has not started has no call.
C1_FetchIff ==
    \A i \in 1..Len(entries) :
        (fetch_calls[i] >= 1) <=>
            /\ i <= idx
            /\ fetch_full_content
            /\ entries[i].url # None
            /\ entries[i].url # <<>>
            /\ is_single_sentence_summary(strip_html(entries[i].content))

\* a batch is done in which one entry was fetched for and another was not
C1_Witness ==
    /\ pc = "done"
    /\ \E i, j \in 1..Len(entries) : fetch_calls[i] = 1 /\ fetch_calls[j] = 0

\* C2: when the fetch made for an entry returns a text, the record's content
\* is that text as truncate_content cuts it to max_content_length, not the
\* entry's own content.
C2_FetchedTextUsed ==
    (Converted /\ should_fetch /\ full_content # None) =>
        /\ plain_content = full_content
        /\ LastArticle.content =
              truncate_content(full_content, max_content_length)[1]
        /\ LastArticle.truncated =
              truncate_content(full_content, max_content_length)[2]

\* a fetch returned a text longer than the limit and the record is built
C2_Witness ==
    /\ Converted /\ should_fetch /\ full_content # None
    /\ Len(full_content) > max_content_length
    /\ max_content_length = DefaultMaxContentLength
    /\ LastArticle.content # strip_html(LastEntry.content)

\* C3: when the fetch made for an entry returns None, a record is still
\* appended for the entry and its content is the normalized entry content as
\* truncate_content cuts it; when the loop is done every entry of the batch
\* has its record, in order, whatever the fetches returned.
C3_FetchFailureFallsBack ==
    /\ (Converted /\ should_fetch /\ full_content = None) =>
          /\ Len(articles_for_ai) = idx
          /\ LastArticle.id = LastEntry.id
          /\ LastArticle.content =
                truncate_content(strip_html(LastEntry.content),
                                 max_content_length)[1]
    /\ pc = "done" =>
          /\ Len(articles_for_ai) = Len(entries)
          /\ \A i \in 1..Len(entries) : articles_for_ai[i].id = entries[i].id

\* the first entry's fetch failed (its record holds the entry's own text) and
\* the second entry was still converted
C3_Witness ==
    /\ pc = "done"
    /\ Len(entries) = 2
    /\ fetch_calls[1] = 1
    /\ articles_for_ai[1].content = strip_html(entries[1].content)
    /\ Len(articles_for_ai) = 2
    /\ articles_for_ai[2].id = entries[2].id

\* C4 (as claimed): truncated is true iff the working text was longer than
\* max_content_length and the final content has exactly max_content_length
\* characters; truncated false implies the content has at most
\* max_content_length characters and is the working text itself.
C4_TruncatedFlag ==
    Converted =>
        /\ LastArticle.truncated <=>
              (Len(plain_content) > max_content_length
                  /\ Len(LastArticle.content) = max_content_length)
        /\ ~LastArticle.truncated =>
              (Len(LastArticle.content) <= max_content_length
                  /\ LastArticle.content = plain_content)

---------------------------------------------------------------------------
(* Claims about truncate_content, checked under SpecTruncate *)

ELLIPSIS == "U+2026"

\* C6 (as claimed): for max_length >= 1 and a text longer than max_length,
\* truncate_content returns the first max_length - 1 characters of the text
\* followed by one ellipsis character, and the flag true.
C6_PrefixAndEllipsis ==
    (t_first # <<>> /\ t_max >= 1 /\ Len(t_content) > t_max) =>
        t_first = <<SubSeq(t_content, 1, t_max - 1) \o <<ELLIPSIS>>, TRUE>>

\* C7 (as claimed): for every text and every max_length >= 0 the returned
\* string has exactly min(len(text), max_length) characters.
C7_LengthIsMin ==
    t_first # <<>> =>
        Len(t_first[1]) =
            (IF Len(t_content) < t_max THEN Len(t_content) ELSE t_max)

\* C8: a text of at most max_length characters, also one of exactly
\* max_length characters, is returned unchanged with the flag false.
C8_ShortTextUnchanged ==
    (t_first # <<>> /\ Len(t_content) <= t_max) =>
        t_first = <<t_content, FALSE>>

\* truncate_content was called on a text of exactly max_length characters
C8_Witness ==
    t_first # <<>> /\ t_max >= 1 /\ Len(t_content) = t_max

\* C9 (as claimed): truncate_content applied with the same bound to the
\* string it returned gives that string again, with the flag false.
C9_Idempotent ==
    t_second # <<>> => t_second = <<t_first[1], FALSE>>

---------------------------------------------------------------------------
(* Claim about is_single_sentence_summary, checked under SpecClassify *)

\* the runs of . ! ? that whitespace or the end of the string follows,
\* counted by their last character
RunsFollowedBySpaceOrEnd(s) ==
    Cardinality({i \in 1..Len(s) :
        IsSentenceEnd(s[i]) /\ (i = Len(s) \/ IsSpace(s[i + 1]))})

\* one of the five keywords is a substring of the lowercased text
MentionsKeyword(s) ==
    \E kw \in {summary_keywords[k] : k \in 1..Len(summary_keywords)} :
        \E i \in 1..Len(s) :
            /\ i + Len(kw) - 1 <= Len(s)
            /\ \A j \in 1..Len(kw) : LowerChar(s[i + j - 1]) = kw[j]

\* C10: is_single_sentence_summary returns true for None and for an input
\* whose trimmed length is under 20; otherwise, with L the length of the
\* normalized text and S its number of runs of . ! ? followed by whitespace
\* or the end, it returns true iff L < 100, or S <= 2 and L < 300, or the
\* lowercased normalized text contains a keyword and L < 400.
C10_Policy ==
    c_result # <<>> =>
        c_result[1] =
            (IF c_content = None \/ Len(Strip(c_content)) < 20
             THEN TRUE
             ELSE LET normalized == strip_html(c_content)
                      L == Len(normalized)
                      S == RunsFollowedBySpaceOrEnd(normalized)
                  IN  \/ L < 100
                      \/ (S <= 2 /\ L < 300)
                      \/ (MentionsKeyword(normalized) /\ L < 400))

\* a text of 300 characters or more was classified as a summary, which only
\* the keyword rule allows
C10_Witness ==
    /\ c_result = <<TRUE>>
    /\ c_content # None
    /\ Len(strip_html(c_content)) >= 300

\* C18: from_entry calls fetch_article_content at most once for an entry,
\* and not at all before the entry's turn; a fetch that failed is not
\* repeated.
C18_AtMostOneFetch ==
    \A i \in 1..Len(entries) :
        /\ fetch_calls[i] <= 1
        /\ i > idx => fetch_calls[i] = 0
        /\ fetch_calls[i] = 1 => i <= idx /\ entry_should_fetch(entries[i], fetch_full_content)

\* a fetch has failed, the loop has ended, and the call was made once
C18_Witness ==
    /\ pc = "done"
    /\ Len(entries) >= 1
    /\ should_fetch
    /\ full_content = None
    /\ fetch_calls[Len(entries)] = 1

\* C19: from_entry never raises for a valid Entry, whatever its optional
\* fields, the outcome of the fetch and max_content_length >= 0: every
\* call returns one ArticleInput.
C19_FromEntryNeverRaises ==
    /\ conversion_errors = {}
    /\ pc \in {"loop", "done"} => Len(articles_for_ai) = idx
    /\ pc = "await_fetch" => Len(articles_for_ai) = idx - 1

\* the fetch has failed and max_content_length is 0: a record all the same
C19_Witness ==
    /\ pc = "loop"
    /\ idx = 1
    /\ should_fetch
    /\ full_content = None
    /\ max_content_length = 0
    /\ Len(articles_for_ai) = 1
    /\ conversion_errors = {}

---------------------------------------------------------------------------
(* Claims about the loop of fetch_articles, checked under SpecFaults *)

\* the entries whose call of from_entry has ended
Finished == IF pc = "await_fetch" THEN idx - 1 ELSE idx

\* the positions among the first n whose conversion did not raise
Succeeded(n) ==
    LET Kept(i) == i \notin conversion_errors
    IN  SelectSeq([i \in 1..n |-> i], Kept)

\* C20: an entry whose conversion raises is skipped and the loop goes on:
\* the list holds the entries whose conversion succeeded, each once and in
\* the order of the input, and every entry is attempted once, whatever
\* happened to the entries before it.
C20_SkipAndContinue ==
    /\ Len(articles_for_ai) = Len(Succeeded(Finished))
    /\ \A r \in 1..Len(articles_for_ai) :
          articles_for_ai[r].id = entries[Succeeded(Finished)[r]].id
    /\ \A i \in 1..Len(entries) : attempts[i] = (IF i <= idx THEN 1 ELSE 0)
    /\ pc = "done" => idx = Len(entries)

\* the first conversion raised and the second entry is in the list
C20_Witness ==
    /\ pc = "done"
    /\ Len(entries) = 2
    /\ conversion_errors = {1}
    /\ Len(articles_for_ai) = 1
    /\ articles_for_ai[1].id = entries[2].id
    /\ attempts = <<1, 1>>

---------------------------------------------------------------------------
(* Claims about fetch_article_content, checked under SpecFetch *)

Fetched == f_outcome # <<>>

\* C11: fetch_article_content never raises: a failure of the request
\* (connection error, timeout, error status) and any other exception raised
\* while the page is parsed or its text extracted give None.
C11_NeverRaises ==
    Fetched =>
        /\ f_outcome[1].raised = "none"
        /\ f_response.error # "none" => f_outcome[1].value = None

C11_Witness ==
    /\ Fetched
    /\ f_response.error = "status_error"
    /\ f_outcome[1] = [raised |-> "none", value |-> None]

\* C12: the extracted text is returned only when it has more than 200
\* characters; a text of 200 characters or fewer gives None.
C12_MoreThan200 ==
    Fetched /\ f_response.error = "none" /\ f_element # None =>
        LET text_content == extracted_text(f_element)
        IN  IF Len(text_content) > 200
            THEN f_outcome[1].value = text_content
            ELSE f_outcome[1].value = None

C12_Witness ==
    /\ Fetched
    /\ f_response.error = "none"
    /\ f_element # None
    /\ Len(extracted_text(f_element)) = 200
    /\ f_outcome[1].value = None

\* C13: the content region is the element of the earliest selector of the
\* priority list that matches, whatever later selectors match; the body
\* when no selector matches; and without a body the result is None.
C13_EarliestSelectorWins ==
    Fetched /\ f_response.error = "none" =>
        LET sel == f_response.page.sel
            unmatched == \A k \in 1..Len(sel) : sel[k] = None
        IN  /\ \A k \in 1..Len(sel) :
                  sel[k] # None /\ (\A j \in 1..(k - 1) : sel[j] = None)
                      => f_element = sel[k]
            /\ unmatched => f_element = f_response.page.body
            /\ unmatched /\ f_response.page.body = None
                  => f_outcome[1].value = None

C13_Witness ==
    /\ Fetched
    /\ f_response.error = "none"
    /\ \E k, later \in 1..Len(content_selectors) :
          /\ k < later
          /\ f_response.page.sel[later] # None
          /\ f_response.page.sel[k] # None
          /\ Len(f_response.page.sel[k]) < Len(f_response.page.sel[later])
          /\ f_element = f_response.page.sel[k]
          /\ f_outcome[1].value = None

---------------------------------------------------------------------------
(* Claims about strip_html, checked under SpecStrip *)

Stripped == s_result # <<>>

HtmlChars == UNION {{token[i] : i \in 1..Len(token)} : token \in HtmlTokens}

\* C14: strip_html returns the empty string for None and for the empty
\* string, and returns a string, without raising, for every string.
C14_EmptyForNoneAndEmpty ==
    Stripped =>
        /\ s_html \in {None, <<>>} => s_result[1] = <<>>
        /\ s_result[1] \in Seq(HtmlChars)

C14_Witness == Stripped /\ s_html = None /\ s_result[1] = <<>>

\* C15: the output of strip_html has no leading and no trailing whitespace
\* and no two consecutive whitespace characters.
C15_WhitespaceNormalised ==
    Stripped =>
        LET out == s_result[1]
        IN  /\ out # <<>> => ~IsSpace(out[1]) /\ ~IsSpace(out[Len(out)])
            /\ \A i \in 1..(Len(out) - 1) :
                  ~(IsSpace(out[i]) /\ IsSpace(out[i + 1]))

\* whitespace and a tag at the start of the input, before text
C15_Witness ==
    /\ Stripped
    /\ Len(s_html) >= 5
    /\ IsSpace(s_html[1])
    /\ \E i \in 2..(Len(s_html) - 1) : s_html[i] = ">"
    /\ s_result[1] # <<>>

\* C16: in the output of strip_html no whitespace character stands
\* immediately before one of . ! ? , : ;
C16_NoSpaceBeforePunctuation ==
    Stripped =>
        LET out == s_result[1]
        IN  \A i \in 1..(Len(out) - 1) :
              ~(IsSpace(out[i]) /\ out[i + 1] \in {".", "!", "?", ",", ":", ";"})

\* a word, a tag, a comma: the tag's space is removed again
C16_Witness ==
    /\ Stripped
    /\ s_html = <<"a", "<", "p", ">", ",">>
    /\ s_result[1] = <<"a", ",">>

\* Well-formed HTML, read strictly: a tag is "<", a one-letter name,
\* attributes whose values are quoted, and ">"; a closing tag is "</", the
\* name of the innermost open tag, and ">"; the text between tags holds no
\* angle bracket.  open is the stack of the open tags.
IsTagName(c) == c \in {"a", "p"}

RECURSIVE WellFormedFrom(_, _, _, _)
WellFormedFrom(s, i, mode, open) ==
    IF i > Len(s)
    THEN mode = "text" /\ open = <<>>
    ELSE CASE mode = "text" ->
                IF s[i] = ">" THEN FALSE
                ELSE IF s[i] # "<" THEN WellFormedFrom(s, i + 1, "text", open)
                ELSE IF i + 1 <= Len(s) /\ IsTagName(s[i + 1])
                THEN WellFormedFrom(s, i + 2, "tag", Append(open, s[i + 1]))
                ELSE /\ i + 3 <= Len(s)
                     /\ s[i + 1] = "/"
                     /\ open # <<>>
                     /\ s[i + 2] = open[Len(open)]
                     /\ s[i + 3] = ">"
                     /\ WellFormedFrom(s, i + 4, "text",
                                       SubSeq(open, 1, Len(open) - 1))
           [] mode = "tag" ->
                IF s[i] = ">" THEN WellFormedFrom(s, i + 1, "text", open)
                ELSE IF s[i] = "\"" THEN WellFormedFrom(s, i + 1, "quoted", open)
                ELSE s[i] # "<" /\ WellFormedFrom(s, i + 1, "tag", open)
           [] mode = "quoted" ->
                IF s[i] = "\"" THEN WellFormedFrom(s, i + 1, "tag", open)
                ELSE s[i] # "<" /\ WellFormedFrom(s, i + 1, "quoted", open)

WellFormed(s) == s # None /\ WellFormedFrom(s, 1, "text", <<>>)

HasAngleBracket(s) == \E i \in 1..Len(s) : s[i] \in {"<", ">"}

\* C17: for every well-formed HTML input the output of strip_html holds
\* neither "<" nor ">".
C17_NoAngleBrackets ==
    Stripped /\ WellFormed(s_html) => ~HasAngleBracket(s_result[1])

---------------------------------------------------------------------------
(* Claims about process_article, checked under SpecSummarize *)

Summarized == p_summary # <<>>

MetadataFields ==
    {"id", "title", "url", "published_at", "source", "author", "category",
     "truncated", "feed_id"}

\* C22: on every path of process_article the returned ArticleSummary has
\* the id, title, url, published_at, source, author, category, truncated
\* and feed_id of the article; only the summary varies.
C22_MetadataPassedThrough ==
    Summarized =>
        /\ DOMAIN p_summary[1].value = MetadataFields \cup {"summary"}
        /\ \A field \in MetadataFields :
              p_summary[1].value[field] = p_article[field]

\* the model client raised for an article whose content was truncated
C22_Witness ==
    /\ Summarized
    /\ p_outcome.error = "TimeoutError"
    /\ p_article.truncated
    /\ p_summary[1].value.truncated
    /\ p_summary[1].value.id = p_article.id

\* C23: process_article never raises, and its summary is the tool's
\* summary when the first tool call names summarize_article with a valid
\* summary argument, "Function not found" when it names another function,
\* "Tool call failed" when there is no tool call, and "Processing failed"
\* when the model client raises or the tool arguments are invalid.
C23_SummaryByOutcome ==
    Summarized =>
        LET calls == p_outcome.tool_calls
            text == p_summary[1].value.summary
            ValidArguments(arguments) ==
                /\ Len(arguments) = 1
                /\ arguments[1].key = "summary"
                /\ arguments[1].type = "str"
        IN  /\ p_summary[1].raised = "none"
            /\ IF p_outcome.error # "none"
               THEN text = PROCESSING_FAILED
               ELSE IF calls = <<>>
               THEN text = TOOL_CALL_FAILED
               ELSE IF calls[1].name # "summarize_article"
               THEN text = FUNCTION_NOT_FOUND
               ELSE IF ValidArguments(calls[1].arguments)
               THEN text = calls[1].arguments[1].value
               ELSE text = PROCESSING_FAILED

\* two tool calls, the first of another function
C23_Witness ==
    /\ Summarized
    /\ p_outcome.error = "none"
    /\ Len(p_outcome.tool_calls) = 2
    /\ p_outcome.tool_calls[1].name # "summarize_article"
    /\ p_outcome.tool_calls[2].name = "summarize_article"
    /\ p_summary[1].value.summary = FUNCTION_NOT_FOUND

---------------------------------------------------------------------------
(* Claims about run_summarization, checked under SpecRun and SpecRunLive *)

NothingToProcess ==
    feed_raised \/ entries = <<>> \/ conversion_errors = 1..Len(entries)

\* C21: when the feed API call raises, or delivers no entry, or every
\* conversion fails, run_summarization returns None without raising, and
\* neither process_articles nor generate_html_output is called.
C21_NothingToProcess ==
    pc = "done" /\ NothingToProcess =>
        /\ r_pc \in {"fetch_articles", "returned"}
        /\ r_pc = "returned" => r_result = None
        /\ process_calls = 0
        /\ render_calls = 0

\* both conversions of a batch of two have raised
C21_Witness ==
    /\ r_pc = "returned"
    /\ ~feed_raised
    /\ Len(entries) = 2
    /\ conversion_errors = {1, 2}
    /\ r_result = None
    /\ process_calls = 0

\* C24: entries are resolved one at a time and articles are summarized one
\* at a time: the resolution of an entry begins only when those of the
\* entries before it have returned or raised, and likewise the
\* summarization of an article.
C24_OneAtATime ==
    /\ Cardinality(resolving) <= 1
    /\ \A j \in 1..Len(entries) :
          attempts[j] >= 1 =>
              \A i \in 1..(j - 1) : attempts[i] = 1 /\ i \notin resolving
    /\ Cardinality(summarizing) <= 1
    /\ summarizing \subseteq {sum_idx}
    /\ Len(summaries) + Cardinality(summarizing) = sum_idx

\* the second entry's fetch is in progress, the first entry is finished
C24_Witness ==
    /\ pc = "await_fetch"
    /\ idx = 2
    /\ resolving = {2}
    /\ attempts = <<1, 1>>
    /\ Len(articles_for_ai) + Cardinality(conversion_errors) = 1

\* C25: for a finite batch, when every outbound call returns or fails in
\* the end, run_summarization returns in the end; a fetch that times out
\* gives None and the loop goes on.
C25_Returns == <>(r_pc = "returned")

\* the last fetch timed out and the report was written all the same
C25_Witness ==
    /\ r_pc = "returned"
    /\ should_fetch
    /\ fetch_response.error = "timeout"
    /\ full_content = None
    /\ Len(articles_for_ai) = Len(entries)
    /\ r_result = OUTPUT_FILE

\* C29: process_articles returns one ArticleSummary for each article, in
\* the order of the articles, whatever the model answers for each of them;
\* a failure for one article drops neither it nor another.
C29_OneSummaryPerArticle ==
    /\ Len(summaries) = (IF r_pc = "await_model" THEN sum_idx - 1 ELSE sum_idx)
    /\ \A i \in 1..Len(summaries) : summaries[i].id = articles_for_ai[i].id
    /\ r_pc = "returned" /\ process_calls = 1
          => Len(summaries) = Len(articles_for_ai)

\* the model client raised for the first of two articles
C29_Witness ==
    /\ r_pc = "returned"
    /\ Len(articles_for_ai) = 2
    /\ Len(summaries) = 2
    /\ summaries[1].summary = PROCESSING_FAILED
    /\ summaries[1].id = articles_for_ai[1].id
    /\ summaries[2].summary = SUMMARY
    /\ summaries[2].id = articles_for_ai[2].id

---------------------------------------------------------------------------
(* Claims about the fetch policy's length bounds, checked under Spec *)

\* C26: an entry whose normalized content has 400 characters or more is
\* never fetched, and with a non-empty url and fetching enabled an entry
\* whose normalized content has fewer than 100 characters is always fetched.
C26_LengthBounds ==
    \A j \in 1..idx :
        LET normalized == entry_plain_content(entries[j])
        IN  /\ Len(normalized) >= 400 => fetch_calls[j] = 0
            /\ (Truthy(entries[j].url) /\ fetch_full_content
                    /\ Len(normalized) < 100)
                  => fetch_calls[j] = 1

\* a teaser that was fetched, then a text of 400 characters or more with a
\* url that was not
C26_Witness ==
    /\ pc = "done"
    /\ fetch_full_content
    /\ Len(entries) = 2
    /\ Len(entry_plain_content(entries[1])) < 100
    /\ Len(entry_plain_content(entries[2])) >= 400
    /\ Truthy(entries[2].url)
    /\ fetch_calls = <<1, 0>>

---------------------------------------------------------------------------
(* Claim about the selector loop's break, checked under SpecFetch *)

\* C27: when the element of the earliest matching selector has a text of
\* 200 characters or fewer the result is None, also when a later selector
\* or the body has a text of more than 200 characters.
C27_NoFallThrough ==
    Fetched /\ f_response.error = "none" =>
        LET sel == f_response.page.sel
            matched == {k \in 1..Len(sel) : sel[k] # None}
        IN  matched # {} /\ Len(extracted_text(sel[SetMin(matched)])) <= 200
                => f_outcome[1].value = None

\* the earliest match has 200 characters, a later one and the body have 201
C27_Witness ==
    /\ Fetched
    /\ f_response.error = "none"
    /\ \E k, later \in 1..Len(content_selectors) :
          /\ k < later
          /\ \A j \in 1..(k - 1) : f_response.page.sel[j] = None
          /\ f_response.page.sel[k] # None
          /\ Len(extracted_text(f_response.page.sel[k])) = 200
          /\ f_response.page.sel[later] # None
          /\ Len(extracted_text(f_response.page.sel[later])) > 200
    /\ f_response.page.body # None
    /\ Len(extracted_text(f_response.page.body)) > 200
    /\ f_outcome[1].value = None

---------------------------------------------------------------------------
(* Claim about a second pass of strip_html, checked under SpecStrip *)

\* s holds a "<", then one or more characters other than ">", then a ">"
HasTag(s) ==
    \E i, j \in 1..Len(s) :
        /\ i + 2 <= j
        /\ s[i] = "<"
        /\ s[j] = ">"
        /\ \A k \in (i + 1)..(j - 1) : s[k] # ">"

\* C28: strip_html is idempotent, strip_html(strip_html(x)) =
\* strip_html(x) for every string x, and its output never holds a "<"
\* followed by one or more characters other than ">" and then a ">".
C28_Idempotent ==
    Stripped =>
        /\ strip_html(s_result[1]) = s_result[1]
        /\ ~HasTag(s_result[1])

\* an input with a tag, whose output keeps a "<" and a ">" and more
C28_Witness ==
    /\ Stripped
    /\ s_html # None
    /\ HasTag(s_html)
    /\ Len(s_result[1]) >= 3
    /\ \E i, j \in 1..Len(s_result[1]) :
          s_result[1][i] = "<" /\ s_result[1][j] = ">"
    /\ strip_html(s_result[1]) = s_result[1]

---------------------------------------------------------------------------
(* Claim about the length of a fetched text, checked under Spec *)

\* C30: a fetch that succeeds never shortens the content: when from_entry
\* replaces the normalized feed text by the text that
\* fetch_article_content returned, that text is at least as long as the
\* normalized feed text.
C30_FetchNeverShortens ==
    should_fetch /\ full_content # Unset /\ Truthy(full_content) =>
        /\ plain_content = full_content
        /\ Len(full_content) >= Len(entry_plain_content(entries[idx]))

====
